---- MODULE Spec2Model ----
(***************************************************************************)
(* Shape-level model of starganv2.py: AdaptiveInstanceNorm, AdaResBlock,   *)
(* ResBlock, Discriminator, StyleEncoder, MappingNetwork and Generator.    *)
(* A tensor is modelled by its shape (and, where a gather selects among    *)
(* per-domain outputs, by the identity of the selected entries).  Each     *)
(* constructor is stepped through its loops; each forward is one action.   *)
(***************************************************************************)
EXTENDS Integers, Sequences, FiniteSets, TLC

VARIABLES net, pc, args, dim_in, dim_out, num_blocks, it,
          conv_in, conv_out, encoder, decoder, blocks, unshared, self,
          inp, out

vars == <<net, pc, args, dim_in, dim_out, num_blocks, it,
          conv_in, conv_out, encoder, decoder, blocks, unshared, self,
          inp, out>>

(* ------------------------------ bounds -------------------------------- *)
MaxImgSize == 40
MaxBatch == 2
MaxDomains == 2
MaxHW == 3
MaxWidth == 3

(* ------------------------- program constants -------------------------- *)
BaseWidth == 16384
DefaultImgSize == 256
DefaultStyleDim == 64
DefaultMaxConvDim == 512
DefaultLatentDim == 16
HiddenDim == 512
ImgChannels == 3
TailKernel == 4
GeneratorDepthOffset == 4
PyramidDepthOffset == 2

(* ------------------------- input value sets --------------------------- *)
ImgSizes == (1..MaxImgSize) \cup {DefaultImgSize \div 2, DefaultImgSize}
StyleDims == {1, DefaultStyleDim}
MaxConvDims == {8, DefaultMaxConvDim}
LatentDims == {DefaultLatentDim, DefaultStyleDim}
Batches == 1..MaxBatch
Domains == 1..MaxDomains
DomainIdx == (0 - MaxDomains - 1)..MaxDomains
Widths == 1..MaxWidth
Sides == 1..MaxHW

(* a local that has not been assigned yet *)
UNBOUND == -1

(* ----------------------------- tensors -------------------------------- *)
(* err = "none": a tensor of the given shape; vals: for a gathered result,
   which (example, domain, position) entry each element is. *)
Tensor(shape) == [err |-> "none", shape |-> shape, vals |-> <<>>]
Fail(e) == [err |-> e, shape |-> <<>>, vals |-> <<>>]
Ok(t) == t.err = "none"

Max(a, b) == IF a >= b THEN a ELSE b
Min(a, b) == IF a <= b THEN a ELSE b

RECURSIVE Prod(_)
Prod(sq) == IF sq = <<>> THEN 1 ELSE Head(sq) * Prod(Tail(sq))

(* int(np.log2(n)) for n >= 1 *)
RECURSIVE IntLog2(_)
IntLog2(n) == IF n < 2 THEN 0 ELSE 1 + IntLog2(n \div 2)

(* faulty variant: no broadcasting, the shapes must be equal *)
Broadcastable_exact(a, b) == a = b

(* tensor broadcasting of two shapes of equal rank *)
Broadcastable(a, b) ==
  /\ Len(a) = Len(b)
  /\ \A k \in 1..Len(a) : a[k] = b[k] \/ a[k] = 1 \/ b[k] = 1

Broadcast(x, g) ==
  IF ~Ok(x) THEN x
  ELSE IF ~Ok(g) THEN g
  ELSE IF ~Broadcastable(x.shape, g.shape) THEN Fail("ShapeError")
  ELSE Tensor([k \in 1..Len(x.shape) |-> Max(x.shape[k], g.shape[k])])

(* ------------------------- library layers ----------------------------- *)
Conv(cin, cout, k, pad) == [kind |-> "Conv2d", cin |-> cin, cout |-> cout, k |-> k, pad |-> pad]
LinearLayer(fin, fout) == [kind |-> "Linear", fin |-> fin, fout |-> fout]
Activation == [kind |-> "Activation"]

(* nn.Conv2d, stride 1: the channel count must match, the kernel must fit *)
Conv2d(m, x) ==
  IF ~Ok(x) THEN x
  ELSE IF Len(x.shape) # 4 \/ x.shape[2] # m.cin THEN Fail("ShapeError")
  ELSE IF x.shape[3] + 2 * m.pad < m.k \/ x.shape[4] + 2 * m.pad < m.k THEN Fail("ShapeError")
  ELSE Tensor(<<x.shape[1], m.cout, x.shape[3] + 2 * m.pad - m.k + 1, x.shape[4] + 2 * m.pad - m.k + 1>>)

(* nn.Linear: the last dimension must equal in_features *)
Linear(m, x) ==
  IF ~Ok(x) THEN x
  ELSE IF Len(x.shape) < 1 \/ x.shape[Len(x.shape)] # m.fin THEN Fail("ShapeError")
  ELSE Tensor([k \in 1..Len(x.shape) |-> IF k = Len(x.shape) THEN m.fout ELSE x.shape[k]])

(* nn.InstanceNorm2d: with affine parameters the channel count must match;
   without them any channel count is normalised.  A runtime that verifies
   the spatial size (strict) rejects a single spatial element. *)
InstanceNorm2d(num_features, affine, strict, x) ==
  IF ~Ok(x) THEN x
  ELSE IF Len(x.shape) # 4 THEN Fail("ShapeError")
  ELSE IF strict /\ x.shape[3] * x.shape[4] = 1 THEN Fail("ShapeError")
  ELSE IF affine /\ x.shape[2] # num_features THEN Fail("ShapeError")
  ELSE x

(* faulty variant: pooling that rounds the halved size up *)
AvgPool2d_ceil(x) ==
  IF ~Ok(x) THEN x
  ELSE Tensor(<<x.shape[1], x.shape[2], (x.shape[3] + 1) \div 2, (x.shape[4] + 1) \div 2>>)

(* F.avg_pool2d(x, 2): floor-halves H and W; an empty output is an error *)
AvgPool2d(x) ==
  IF ~Ok(x) THEN x
  ELSE IF x.shape[3] \div 2 < 1 \/ x.shape[4] \div 2 < 1 THEN Fail("ShapeError")
  ELSE Tensor(<<x.shape[1], x.shape[2], x.shape[3] \div 2, x.shape[4] \div 2>>)

(* faulty variant: the upsampling left out *)
Interpolate_same(x) == x

(* F.interpolate(x, scale_factor = 2, mode = 'nearest') *)
Interpolate(x) ==
  IF ~Ok(x) THEN x
  ELSE Tensor(<<x.shape[1], x.shape[2], 2 * x.shape[3], 2 * x.shape[4]>>)

(* ----------------------- AdaptiveInstanceNorm ------------------------- *)
AdaptiveInstanceNorm(style_dim, num_features) ==
  [kind |-> "AdaptiveInstanceNorm", norm |-> num_features,
   fc |-> LinearLayer(style_dim, num_features * 2)]

(* h.view(h.size(0), h.size(1), 1, 1) followed by torch.chunk(h, 2, dim=1) *)
GammaBeta(h) ==
  IF ~Ok(h) THEN h
  ELSE IF Len(h.shape) # 2 THEN Fail("ShapeError")
  ELSE Tensor(<<h.shape[1], h.shape[2] \div 2, 1, 1>>)

AdaIN_forward(m, strict, x, s) ==
  LET gamma == GammaBeta(Linear(m.fc, s))
      normed == InstanceNorm2d(m.norm, FALSE, strict, x)
  IN IF ~Ok(gamma) THEN gamma
     ELSE Broadcast(Broadcast(normed, gamma), gamma)

(* ---------------------------- AdaResBlock ----------------------------- *)
AdaResBlock(d_in, d_out, style_dim, upsample) ==
  [kind |-> "AdaResBlock", dim_in |-> d_in, dim_out |-> d_out,
   upsample |-> upsample, shortcut |-> (d_in # d_out),
   conv_1 |-> Conv(d_in, d_out, 3, 1), conv_2 |-> Conv(d_out, d_out, 3, 1),
   norm_1 |-> AdaptiveInstanceNorm(style_dim, d_in),
   norm_2 |-> AdaptiveInstanceNorm(style_dim, d_out),
   conv_1x1 |-> IF d_in # d_out THEN <<Conv(d_in, d_out, 1, 0)>> ELSE <<>>]

AdaResBlock_shortcut(b, x) ==
  LET x1 == IF b.upsample THEN Interpolate(x) ELSE x
  IN IF b.shortcut THEN Conv2d(b.conv_1x1[1], x1) ELSE x1

AdaResBlock_residual(b, strict, x, s) ==
  LET x1 == AdaIN_forward(b.norm_1, strict, x, s)
      x2 == IF b.upsample THEN Interpolate(x1) ELSE x1
      x3 == Conv2d(b.conv_1, x2)
      x4 == AdaIN_forward(b.norm_2, strict, x3, s)
  IN Conv2d(b.conv_2, x4)

AdaResBlock_forward(b, strict, x, s) ==
  Broadcast(AdaResBlock_residual(b, strict, x, s), AdaResBlock_shortcut(b, x))

(* ------------------------------ ResBlock ------------------------------ *)
ResBlock(d_in, d_out, downsample, normalize) ==
  [kind |-> "ResBlock", dim_in |-> d_in, dim_out |-> d_out,
   downsample |-> downsample, shortcut |-> (d_in # d_out), normalize |-> normalize,
   conv_1 |-> Conv(d_in, d_in, 3, 1), conv_2 |-> Conv(d_in, d_out, 3, 1),
   norm_1 |-> IF normalize THEN <<d_in>> ELSE <<>>,
   norm_2 |-> IF normalize THEN <<d_in>> ELSE <<>>,
   conv_1x1 |-> IF d_in # d_out THEN <<Conv(d_in, d_out, 1, 0)>> ELSE <<>>]

(* faulty variant: the shortcut is not pooled *)
ResBlock_shortcut_nopool(b, x) ==
  IF b.shortcut THEN Conv2d(b.conv_1x1[1], x) ELSE x

ResBlock_shortcut(b, x) ==
  LET x1 == IF b.shortcut THEN Conv2d(b.conv_1x1[1], x) ELSE x
  IN IF b.downsample THEN AvgPool2d(x1) ELSE x1

ResBlock_residual(b, strict, x) ==
  LET x1 == IF b.normalize THEN InstanceNorm2d(b.norm_1[1], TRUE, strict, x) ELSE x
      x2 == Conv2d(b.conv_1, x1)
      x3 == IF b.downsample THEN AvgPool2d(x2) ELSE x2
      x4 == IF b.normalize THEN InstanceNorm2d(b.norm_2[1], TRUE, strict, x3) ELSE x3
  IN Conv2d(b.conv_2, x4)

ResBlock_forward(b, strict, x) ==
  Broadcast(ResBlock_residual(b, strict, x), ResBlock_shortcut(b, x))

(* nn.Sequential / a loop over a ModuleList of style-free layers *)
Layer(m, strict, x) ==
  IF m.kind = "Conv2d" THEN Conv2d(m, x)
  ELSE IF m.kind = "Linear" THEN Linear(m, x)
  ELSE IF m.kind = "ResBlock" THEN ResBlock_forward(m, strict, x)
  ELSE IF m.kind = "InstanceNorm2d" THEN InstanceNorm2d(m.num_features, TRUE, strict, x)
  ELSE x

RECURSIVE Sequential(_, _, _)
Sequential(ms, strict, x) ==
  IF ms = <<>> THEN x
  ELSE LET r == Layer(Head(ms), strict, x)
       IN IF Ok(r) THEN Sequential(Tail(ms), strict, r) ELSE r

(* the decoder loop of Generator.forward: every block gets the same s *)
RECURSIVE Decode(_, _, _, _)
Decode(ms, strict, x, s) ==
  IF ms = <<>> THEN x
  ELSE LET r == AdaResBlock_forward(Head(ms), strict, x, s)
       IN IF Ok(r) THEN Decode(Tail(ms), strict, r, s) ELSE r

InRange(i, n) == i >= 0 - n /\ i < n
Wrap(i, n) == IF i < 0 THEN i + n ELSE i

(* faulty variant: out[:, y], every row indexed by the whole of y *)
Gather_slice(t, y) ==
  IF ~Ok(t) THEN t
  ELSE IF \E j \in 1..Len(y) : ~InRange(y[j], t.shape[2]) THEN Fail("IndexError")
  ELSE [err |-> "none",
        shape |-> <<t.shape[1], Len(y)>> \o SubSeq(t.shape, 3, Len(t.shape)),
        vals |-> [j \in 1..Len(y) |-> Wrap(y[j], t.shape[2])]]

(* out[indx, y] with indx = range(len(y)): element j is out[j, y[j]];
   an index below -n or above n-1 is an IndexError, a negative one in
   range counts from the end *)
Gather(t, y) ==
  IF ~Ok(t) THEN t
  ELSE IF Len(y) > t.shape[1] THEN Fail("IndexError")
  ELSE IF \E j \in 1..Len(y) : ~InRange(y[j], t.shape[2]) THEN Fail("IndexError")
  ELSE [err |-> "none",
        shape |-> <<Len(y)>> \o SubSeq(t.shape, 3, Len(t.shape)),
        vals |-> [j \in 1..Len(y) |-> Wrap(y[j], t.shape[2])]]

(* out.view(out.size(0), -1) *)
View(t) ==
  IF ~Ok(t) THEN t
  ELSE Tensor(<<t.shape[1], Prod(SubSeq(t.shape, 2, Len(t.shape)))>>)

(* torch.stack(outs, dim = 1) of n tensors of one shape *)
Stack(t, n) ==
  IF ~Ok(t) THEN t
  ELSE Tensor(<<t.shape[1], n>> \o SubSeq(t.shape, 2, Len(t.shape)))

(* which entry column c of a flattened (C, h, w) row is: channel-major *)
Entry(j, c, hw) == [ex |-> j, dom |-> c \div hw, pos |-> c % hw, of |-> hw]

Select(g, hw) ==
  IF ~Ok(g) THEN g
  ELSE [g EXCEPT !.vals = [j \in 1..Len(g.vals) |-> Entry(j, g.vals[j], hw)]]

NoResult == [err |-> "unset", shape |-> <<>>, vals |-> <<>>]

(* ------------------------------ Generator ----------------------------- *)
(* faulty variant: one downsampling stage too many *)
GeneratorNumBlocks_more(img_size) == IntLog2(img_size) - GeneratorDepthOffset + 1

GeneratorNumBlocks(img_size) == IntLog2(img_size) - GeneratorDepthOffset

StemWidth(img_size) == BaseWidth \div img_size

NextWidth(d_in, max_conv_dim) == Min(d_in * 2, max_conv_dim)

(* faulty variant: the decoder built by append *)
InsertFront_append(lst, blk) == Append(lst, blk)

(* self.decoder.insert(0, blk) *)
InsertFront(lst, blk) == <<blk>> \o lst

Generator_forward(cin, enc, dec, cout, strict, x, s) ==
  LET x1 == Sequential(enc, strict, Conv2d(cin, x))
      x2 == IF Ok(x1) THEN Decode(dec, strict, x1, s) ELSE x1
  IN IF Ok(x2) THEN Sequential(cout, strict, x2) ELSE x2

GeneratorInit ==
  /\ net = "Generator" /\ pc = "new"
  /\ \E img_size \in ImgSizes, style_dim \in StyleDims, max_conv_dim \in MaxConvDims :
       /\ args' = [img_size |-> img_size, style_dim |-> style_dim, max_conv_dim |-> max_conv_dim]
       /\ dim_in' = StemWidth(img_size)
       /\ conv_in' = Conv(ImgChannels, StemWidth(img_size), 3, 1)
       /\ conv_out' = << [kind |-> "InstanceNorm2d", num_features |-> StemWidth(img_size)],
                         Activation,
                         Conv(StemWidth(img_size), ImgChannels, 1, 0) >>
       /\ num_blocks' = GeneratorNumBlocks(img_size)
  /\ encoder' = <<>> /\ decoder' = <<>>
  /\ it' = 0 /\ dim_out' = UNBOUND
  /\ pc' = "loop"
  /\ UNCHANGED <<net, blocks, unshared, self, inp, out>>

GeneratorLoop ==
  /\ net = "Generator" /\ pc = "loop" /\ it < num_blocks
  /\ dim_out' = NextWidth(dim_in, args.max_conv_dim)
  /\ encoder' = Append(encoder, ResBlock(dim_in, dim_out', TRUE, TRUE))
  /\ decoder' = InsertFront(decoder, AdaResBlock(dim_out', dim_in, args.style_dim, TRUE))
  /\ dim_in' = dim_out'
  /\ it' = it + 1
  /\ UNCHANGED <<net, pc, args, num_blocks, conv_in, conv_out, blocks, unshared, self, inp, out>>

GeneratorBottleneck ==
  /\ net = "Generator" /\ pc = "loop" /\ it >= num_blocks
  /\ IF dim_out = UNBOUND
     THEN /\ pc' = "failed" /\ out' = Fail("NameError")
          /\ UNCHANGED <<encoder, decoder>>
     ELSE /\ encoder' = Append(Append(encoder, ResBlock(dim_in, dim_out, FALSE, TRUE)),
                               ResBlock(dim_in, dim_out, FALSE, TRUE))
          /\ decoder' = InsertFront(InsertFront(decoder,
                               AdaResBlock(dim_out, dim_in, args.style_dim, FALSE)),
                               AdaResBlock(dim_out, dim_in, args.style_dim, FALSE))
          /\ pc' = "built" /\ out' = out
  /\ UNCHANGED <<net, args, dim_in, dim_out, num_blocks, it, conv_in, conv_out,
                 blocks, unshared, self, inp>>

GeneratorCall ==
  /\ net = "Generator" /\ pc = "built"
  /\ \E b \in Batches, sd \in StyleDims, strict \in BOOLEAN :
       /\ inp' = [x |-> Tensor(<<b, ImgChannels, args.img_size, args.img_size>>),
                  s |-> Tensor(<<b, sd>>)]
       /\ out' = Generator_forward(conv_in, encoder, decoder, conv_out, strict, inp'.x, inp'.s)
  /\ pc' = "done"
  /\ UNCHANGED <<net, args, dim_in, dim_out, num_blocks, it, conv_in, conv_out,
                 encoder, decoder, blocks, unshared, self>>

(* ---------------------------- Discriminator --------------------------- *)
PyramidNumBlocks(img_size) == IntLog2(img_size) - PyramidDepthOffset

(* the sets of domain tensors y: one index per batch element *)
DomainTensors(b) == [1..b -> DomainIdx]

(* number of spatial positions left by the layer stack, 1 if it failed *)
Positions(t) == IF Ok(t) /\ Len(t.shape) = 4 THEN t.shape[3] * t.shape[4] ELSE 1

(* out = self.blocks(x) *)
Discriminator_blocks(blks, strict, x) == Sequential(blks, strict, x)

(* out.view(out.size(0), -1)[indx, y] *)
Discriminator_gather(o, y) == Select(Gather(View(o), y), Positions(o))

DiscriminatorInit ==
  /\ net = "Discriminator" /\ pc = "new"
  /\ \E img_size \in ImgSizes, num_domains \in Domains, max_conv_dim \in MaxConvDims :
       /\ args' = [img_size |-> img_size, num_domains |-> num_domains, max_conv_dim |-> max_conv_dim]
       /\ dim_in' = StemWidth(img_size)
       /\ blocks' = << Conv(ImgChannels, StemWidth(img_size), 3, 1) >>
       /\ num_blocks' = PyramidNumBlocks(img_size)
  /\ it' = 0 /\ dim_out' = UNBOUND
  /\ pc' = "loop"
  /\ UNCHANGED <<net, conv_in, conv_out, encoder, decoder, unshared, self, inp, out>>

DiscriminatorLoop ==
  /\ net = "Discriminator" /\ pc = "loop" /\ it < num_blocks
  /\ dim_out' = NextWidth(dim_in, args.max_conv_dim)
  /\ blocks' = Append(blocks, ResBlock(dim_in, dim_out', TRUE, FALSE))
  /\ dim_in' = dim_out'
  /\ it' = it + 1
  /\ UNCHANGED <<net, pc, args, num_blocks, conv_in, conv_out, encoder, decoder,
                 unshared, self, inp, out>>

DiscriminatorTail ==
  /\ net = "Discriminator" /\ pc = "loop" /\ it >= num_blocks
  /\ IF dim_out = UNBOUND
     THEN /\ pc' = "failed" /\ out' = Fail("NameError")
          /\ UNCHANGED blocks
     ELSE /\ blocks' = blocks \o << Activation,
                                    Conv(dim_out, dim_out, TailKernel, 0),
                                    Activation,
                                    Conv(dim_out, args.num_domains, 1, 0) >>
          /\ pc' = "built" /\ out' = out
  /\ UNCHANGED <<net, args, dim_in, dim_out, num_blocks, it, conv_in, conv_out,
                 encoder, decoder, unshared, self, inp>>

DiscriminatorCall ==
  /\ net = "Discriminator" /\ pc = "built"
  /\ \E b \in Batches, strict \in BOOLEAN :
       LET x == Tensor(<<b, ImgChannels, args.img_size, args.img_size>>)
           o == Discriminator_blocks(blocks, strict, x)
       IN \E y \in DomainTensors(b) :
            /\ inp' = [x |-> x, y |-> y]
            /\ out' = Discriminator_gather(o, y)
  /\ pc' = "done"
  /\ UNCHANGED <<net, args, dim_in, dim_out, num_blocks, it, conv_in, conv_out,
                 encoder, decoder, blocks, unshared, self>>

(* ---------------------------- StyleEncoder ---------------------------- *)
(* out += [layer(x)] for every head, on the raw input x; the heads are
   built alike, so the stacked tensor has the shape of one head's output *)
StyleEncoder_shared(shared, strict, x) == View(Sequential(shared, strict, x))

StyleEncoder_heads(h, heads, x, y) ==
  IF ~Ok(h) THEN h
  ELSE Select(Gather(Stack(Linear(heads[1], x), Len(heads)), y), 1)

StyleEncoderInit ==
  /\ net = "StyleEncoder" /\ pc = "new"
  /\ \E img_size \in ImgSizes, style_dim \in StyleDims, num_domains \in Domains,
        max_conv_dim \in MaxConvDims :
       /\ args' = [img_size |-> img_size, style_dim |-> style_dim,
                   num_domains |-> num_domains, max_conv_dim |-> max_conv_dim]
       /\ dim_in' = StemWidth(img_size)
       /\ blocks' = << Conv(ImgChannels, StemWidth(img_size), 3, 1) >>
       /\ num_blocks' = PyramidNumBlocks(img_size)
  /\ it' = 0 /\ dim_out' = UNBOUND
  /\ pc' = "loop"
  /\ UNCHANGED <<net, conv_in, conv_out, encoder, decoder, unshared, self, inp, out>>

StyleEncoderLoop ==
  /\ net = "StyleEncoder" /\ pc = "loop" /\ it < num_blocks
  /\ dim_out' = NextWidth(dim_in, args.max_conv_dim)
  /\ blocks' = Append(blocks, ResBlock(dim_in, dim_out', TRUE, FALSE))
  /\ dim_in' = dim_out'
  /\ it' = it + 1
  /\ UNCHANGED <<net, pc, args, num_blocks, conv_in, conv_out, encoder, decoder,
                 unshared, self, inp, out>>

StyleEncoderTail ==
  /\ net = "StyleEncoder" /\ pc = "loop" /\ it >= num_blocks
  /\ IF dim_out = UNBOUND
     THEN /\ pc' = "failed" /\ out' = Fail("NameError")
          /\ UNCHANGED <<blocks, unshared>>
     ELSE /\ blocks' = blocks \o << Activation,
                                    Conv(dim_out, dim_out, TailKernel, 0),
                                    Activation >>
          /\ unshared' = [d \in 1..args.num_domains |-> LinearLayer(dim_out, args.style_dim)]
          /\ pc' = "built" /\ out' = out
  /\ UNCHANGED <<net, args, dim_in, dim_out, num_blocks, it, conv_in, conv_out,
                 encoder, decoder, self, inp>>

StyleEncoderCall ==
  /\ net = "StyleEncoder" /\ pc = "built"
  /\ \E b \in Batches, strict \in BOOLEAN :
       LET x == Tensor(<<b, ImgChannels, args.img_size, args.img_size>>)
           h == StyleEncoder_shared(blocks, strict, x)
       IN \E y \in DomainTensors(b) :
            /\ inp' = [x |-> x, y |-> y]
            /\ out' = StyleEncoder_heads(h, unshared, x, y)
  /\ pc' = "done"
  /\ UNCHANGED <<net, args, dim_in, dim_out, num_blocks, it, conv_in, conv_out,
                 encoder, decoder, blocks, unshared, self>>

(* --------------------------- MappingNetwork --------------------------- *)
(* the names the module binds at top level; any other bare name is a NameError *)
ModuleGlobals == {"nn", "torch", "F", "np", "math", "AdaptiveInstanceNorm",
                  "AdaResBlock", "ResBlock", "Discriminator", "StyleEncoder",
                  "MappingNetwork", "Generator"}

MappingHead(style_dim) ==
  << LinearLayer(HiddenDim, HiddenDim), Activation,
     LinearLayer(HiddenDim, HiddenDim), Activation,
     LinearLayer(HiddenDim, HiddenDim), Activation,
     LinearLayer(HiddenDim, style_dim) >>

(* h = self.shared(z); then the loop header reads the bare name unshared *)
MappingNetwork_forward(shared, heads, strict, z, y) ==
  LET h == Sequential(shared, strict, z)
  IN IF ~Ok(h) THEN h
     ELSE IF "unshared" \notin ModuleGlobals THEN Fail("NameError")
     ELSE Select(Gather(Stack(Sequential(heads[1], strict, h), Len(heads)), y), 1)

MappingNetworkInit ==
  /\ net = "MappingNetwork" /\ pc = "new"
  /\ \E latent_dim \in LatentDims, style_dim \in StyleDims, num_domains \in Domains :
       /\ args' = [latent_dim |-> latent_dim, style_dim |-> style_dim, num_domains |-> num_domains]
       /\ blocks' = << LinearLayer(latent_dim, HiddenDim),
                       LinearLayer(HiddenDim, HiddenDim), Activation,
                       LinearLayer(HiddenDim, HiddenDim), Activation,
                       LinearLayer(HiddenDim, HiddenDim), Activation >>
       /\ unshared' = [d \in 1..num_domains |-> MappingHead(style_dim)]
  /\ pc' = "built"
  /\ UNCHANGED <<net, dim_in, dim_out, num_blocks, it, conv_in, conv_out,
                 encoder, decoder, self, inp, out>>

MappingNetworkCall ==
  /\ net = "MappingNetwork" /\ pc = "built"
  /\ \E b \in Batches, zd \in LatentDims, strict \in BOOLEAN :
       \E y \in DomainTensors(b) :
         /\ inp' = [x |-> Tensor(<<b, zd>>), y |-> y]
         /\ out' = MappingNetwork_forward(blocks, unshared, strict, inp'.x, y)
  /\ pc' = "done"
  /\ UNCHANGED <<net, args, dim_in, dim_out, num_blocks, it, conv_in, conv_out,
                 encoder, decoder, blocks, unshared, self>>

(* ------------------- the blocks called on their own ------------------- *)
FeatureMaps == { Tensor(<<b, c, h, w>>) : b \in Batches, c \in Widths, h \in Sides, w \in Sides }
(* the style vectors for a feature map x: one row per example of x *)
StyleVectors(x) == { Tensor(<<x.shape[1], sd>>) : sd \in StyleDims }

ResBlockInit ==
  /\ net = "ResBlock" /\ pc = "new"
  /\ \E d_in \in Widths, d_out \in Widths, downsample \in BOOLEAN, normalize \in BOOLEAN :
       /\ args' = [dim_in |-> d_in, dim_out |-> d_out,
                   downsample |-> downsample, normalize |-> normalize]
       /\ self' = ResBlock(d_in, d_out, downsample, normalize)
  /\ pc' = "built"
  /\ UNCHANGED <<net, dim_in, dim_out, num_blocks, it, conv_in, conv_out,
                 encoder, decoder, blocks, unshared, inp, out>>

ResBlockCall ==
  /\ net = "ResBlock" /\ pc = "built"
  /\ \E x \in FeatureMaps, strict \in BOOLEAN :
       /\ inp' = [x |-> x, strict |-> strict]
       /\ out' = ResBlock_forward(self, strict, x)
  /\ pc' = "done"
  /\ UNCHANGED <<net, args, dim_in, dim_out, num_blocks, it, conv_in, conv_out,
                 encoder, decoder, blocks, unshared, self>>

AdaResBlockInit ==
  /\ net = "AdaResBlock" /\ pc = "new"
  /\ \E d_in \in Widths, d_out \in Widths, style_dim \in StyleDims, upsample \in BOOLEAN :
       /\ args' = [dim_in |-> d_in, dim_out |-> d_out,
                   style_dim |-> style_dim, upsample |-> upsample]
       /\ self' = AdaResBlock(d_in, d_out, style_dim, upsample)
  /\ pc' = "built"
  /\ UNCHANGED <<net, dim_in, dim_out, num_blocks, it, conv_in, conv_out,
                 encoder, decoder, blocks, unshared, inp, out>>

AdaResBlockCall ==
  /\ net = "AdaResBlock" /\ pc = "built"
  /\ \E x \in FeatureMaps, strict \in BOOLEAN : \E s \in StyleVectors(x) :
       /\ inp' = [x |-> x, s |-> s, strict |-> strict]
       /\ out' = AdaResBlock_forward(self, strict, x, s)
  /\ pc' = "done"
  /\ UNCHANGED <<net, args, dim_in, dim_out, num_blocks, it, conv_in, conv_out,
                 encoder, decoder, blocks, unshared, self>>

AdaINInit ==
  /\ net = "AdaptiveInstanceNorm" /\ pc = "new"
  /\ \E style_dim \in StyleDims, num_features \in Widths :
       /\ args' = [style_dim |-> style_dim, num_features |-> num_features]
       /\ self' = AdaptiveInstanceNorm(style_dim, num_features)
  /\ pc' = "built"
  /\ UNCHANGED <<net, dim_in, dim_out, num_blocks, it, conv_in, conv_out,
                 encoder, decoder, blocks, unshared, inp, out>>

AdaINCall ==
  /\ net = "AdaptiveInstanceNorm" /\ pc = "built"
  /\ \E x \in FeatureMaps, strict \in BOOLEAN : \E s \in StyleVectors(x) :
       /\ inp' = [x |-> x, s |-> s, strict |-> strict]
       /\ out' = AdaIN_forward(self, strict, x, s)
  /\ pc' = "done"
  /\ UNCHANGED <<net, args, dim_in, dim_out, num_blocks, it, conv_in, conv_out,
                 encoder, decoder, blocks, unshared, self>>

(* --------------------------- specification ---------------------------- *)
Classes == {"AdaptiveInstanceNorm", "AdaResBlock", "ResBlock", "Discriminator",
            "StyleEncoder", "MappingNetwork", "Generator"}

Init ==
  /\ net \in Classes
  /\ pc = "new"
  /\ args = <<>>
  /\ dim_in = 0 /\ dim_out = UNBOUND /\ num_blocks = 0 /\ it = 0
  /\ conv_in = <<>> /\ conv_out = <<>>
  /\ encoder = <<>> /\ decoder = <<>> /\ blocks = <<>> /\ unshared = <<>>
  /\ self = <<>>
  /\ inp = <<>>
  /\ out = NoResult

Next ==
  \/ GeneratorInit \/ GeneratorLoop \/ GeneratorBottleneck \/ GeneratorCall
  \/ DiscriminatorInit \/ DiscriminatorLoop \/ DiscriminatorTail \/ DiscriminatorCall
  \/ StyleEncoderInit \/ StyleEncoderLoop \/ StyleEncoderTail \/ StyleEncoderCall
  \/ MappingNetworkInit \/ MappingNetworkCall
  \/ ResBlockInit \/ ResBlockCall
  \/ AdaResBlockInit \/ AdaResBlockCall
  \/ AdaINInit \/ AdaINCall

Spec == Init /\ [][Next]_vars

(* ============================ properties ============================== *)
Finished == pc = "done"
Built == pc \in {"built", "done"}
ValidDomains == \A j \in 1..Len(inp.y) : inp.y[j] >= 0 /\ inp.y[j] < args.num_domains
Batch == inp.x.shape[1]

(* side length left after n floor-halvings of side *)
Halved(side, n) == side \div (2 ^ n)

(* ------------------------------- C1 ----------------------------------- *)
GeneratorInputOk ==
  /\ net = "Generator" /\ Finished
  /\ inp.s.shape = <<Batch, args.style_dim>>

GeneratorDepth == IntLog2(args.img_size) - 4

(* C1 as stated: for every Generator that can be built and every image of
   shape (batch, 3, img_size, img_size) with a style of shape (batch,
   style_dim), forward returns (batch, 3, img_size, img_size). *)
C1_SameSizeAsInput ==
  GeneratorInputOk =>
    /\ Ok(out)
    /\ out.shape = <<Batch, 3, args.img_size, args.img_size>>

(* C1 amended: forward returns (batch, 3, R, R) with R = 2^n * floor(img_size / 2^n),
   n = int(log2(img_size)) - 4; R = img_size exactly when 2^n divides img_size
   (every power of two >= 32), and (batch, 3, 256, 256) for img_size = 256. *)
C1_SizeRoundedDown ==
  GeneratorInputOk =>
    LET k == 2 ^ GeneratorDepth
        r == k * (args.img_size \div k)
    IN /\ Ok(out)
       /\ out.shape = <<Batch, 3, r, r>>
       /\ (args.img_size % k = 0 <=> out.shape = <<Batch, 3, args.img_size, args.img_size>>)
       /\ (args.img_size = 256 => out.shape = <<Batch, 3, 256, 256>>)

C1_Witness ==
  /\ GeneratorInputOk
  /\ args.img_size = 256 /\ args.style_dim = 64 /\ args.max_conv_dim = 512
  /\ out = Tensor(<<1, 3, 256, 256>>)

(* ------------------------------- C2 ----------------------------------- *)
DiscriminatorInputOk == net = "Discriminator" /\ Finished /\ ValidDomains

OwnLogit(j) == [ex |-> j, dom |-> inp.y[j], pos |-> 0, of |-> 1]

(* C2 as stated: for every image batch and every tensor of valid domain
   indices, forward returns a 1-D tensor of batch length whose element i is
   the one logit of example i for domain y[i]. *)
C2_OwnDomainLogit ==
  DiscriminatorInputOk =>
    /\ Ok(out)
    /\ out.shape = <<Batch>>
    /\ \A j \in 1..Batch : out.vals[j] = OwnLogit(j)

(* C2 amended: the result is a 1-D tensor of batch length; element i is the
   one logit of example i for domain y[i] when the pyramid leaves a 4x4 map
   (floor(img_size / 2^n) = 4, n = int(log2(img_size)) - 2: every power of
   two >= 8, so (1,) for a 256x256 image and domain 0); when it leaves an
   m x m map with m in 5..7, element i is column y[i] of a row holding
   (m-3)^2 values per domain. *)
C2_OwnDomainLogitOn4x4 ==
  DiscriminatorInputOk =>
    LET m == Halved(args.img_size, IntLog2(args.img_size) - 2)
    IN /\ Ok(out)
       /\ out.shape = <<Batch>>
       /\ (m = 4 => \A j \in 1..Batch : out.vals[j] = OwnLogit(j))
       /\ (m # 4 => \A j \in 1..Batch :
                      /\ out.vals[j].of = (m - 3) * (m - 3)
                      /\ out.vals[j].dom * out.vals[j].of + out.vals[j].pos = inp.y[j])

C2_Witness ==
  /\ DiscriminatorInputOk
  /\ args.img_size = 256 /\ args.num_domains = 2
  /\ inp.y = <<0>>
  /\ out.shape = <<1>>
  /\ out.vals = << [ex |-> 1, dom |-> 0, pos |-> 0, of |-> 1] >>

(* ------------------------------- C3 ----------------------------------- *)
(* C3: for every latent batch of shape (batch, latent_dim) and every tensor
   of valid domain indices, MappingNetwork.forward completes and returns
   (batch, style_dim), row i being head y[i]'s output for example i. *)
C3_MappingReturnsStyle ==
  (/\ net = "MappingNetwork" /\ Finished /\ ValidDomains
   /\ inp.x.shape = <<Batch, args.latent_dim>>) =>
    /\ Ok(out)
    /\ out.shape = <<Batch, args.style_dim>>
    /\ \A j \in 1..Batch : out.vals[j] = OwnLogit(j)

(* ------------------------------- C4 ----------------------------------- *)
(* C4: for every image batch of shape (batch, 3, img_size, img_size) and
   every tensor of valid domain indices, StyleEncoder.forward completes and
   returns (batch, style_dim), one style vector per example from the head
   of its domain. *)
C4_StyleEncoderReturnsStyle ==
  (net = "StyleEncoder" /\ Finished /\ ValidDomains) =>
    /\ Ok(out)
    /\ out.shape = <<Batch, args.style_dim>>
    /\ \A j \in 1..Batch : out.vals[j] = OwnLogit(j)

(* ------------------------------- C5 ----------------------------------- *)
(* C5: in Discriminator, StyleEncoder and MappingNetwork, whenever some
   y[i] lies outside [0, num_domains) the forward fails; it never returns
   a value selected through a wrapped-around index. *)
C5_OutOfRangeNeverReturns ==
  (/\ net \in {"Discriminator", "StyleEncoder", "MappingNetwork"} /\ Finished
   /\ ~ValidDomains) => ~Ok(out)

(* ------------------------------- C6 ----------------------------------- *)
Mirror(i) == Len(encoder) + 1 - i

(* the widths along conv_in -> encoder -> decoder -> conv_out *)
WidthChain ==
  <<conv_in.cout>>
  \o [i \in 1..Len(encoder) |-> encoder[i].dim_out]
  \o [i \in 1..Len(decoder) |-> decoder[i].dim_out]

IsPalindrome(sq) == \A i \in 1..Len(sq) : sq[i] = sq[Len(sq) + 1 - i]

(* C6: after Generator.__init__ the decoder block mirrored to encoder stage
   i consumes that stage's output width and emits its input width; the
   width sequence is a palindrome, consecutive blocks agree on the width
   between them, and the last decoder block emits the width conv_out was
   built for. *)
C6_WidthsMirrored ==
  (net = "Generator" /\ Built) =>
    /\ Len(encoder) = num_blocks + 2 /\ Len(decoder) = Len(encoder)
    /\ \A i \in 1..Len(encoder) :
         /\ decoder[Mirror(i)].dim_in = encoder[i].dim_out
         /\ decoder[Mirror(i)].dim_out = encoder[i].dim_in
         /\ decoder[Mirror(i)].conv_1.cin = encoder[i].conv_2.cout
         /\ decoder[Mirror(i)].conv_2.cout = encoder[i].conv_1.cin
         /\ decoder[Mirror(i)].upsample = encoder[i].downsample
    /\ IsPalindrome(WidthChain)
    /\ encoder[1].dim_in = conv_in.cout
    /\ \A i \in 1..(Len(encoder) - 1) : encoder[i + 1].dim_in = encoder[i].dim_out
    /\ decoder[1].dim_in = encoder[Len(encoder)].dim_out
    /\ \A i \in 1..(Len(decoder) - 1) : decoder[i + 1].dim_in = decoder[i].dim_out
    /\ conv_out[1].num_features = decoder[Len(decoder)].dim_out
    /\ conv_out[3].cin = decoder[Len(decoder)].dim_out

C6_Witness ==
  /\ net = "Generator" /\ Built
  /\ args.img_size \in {128, 256} /\ args.max_conv_dim = 512
  /\ WidthChain[1] # WidthChain[2]
  /\ encoder[1].dim_in = 16384 \div args.img_size
  /\ decoder[Len(decoder)].dim_out = 16384 \div args.img_size
  /\ encoder[Len(encoder)].dim_out = 512

(* ------------------------------- C7 ----------------------------------- *)
AdaINCalled == net = "AdaptiveInstanceNorm" /\ Finished
Channels == inp.x.shape[2]
Spatial == inp.x.shape[3] * inp.x.shape[4]
Compatible(a, b) == a = b \/ a = 1 \/ b = 1

(* C7 as stated: forward fails whenever s's last dimension differs from
   style_dim, and whenever x's channel count differs from num_features
   (taken on maps of more than one spatial element, which every runtime
   normalises). *)
C7_MismatchAlwaysFails ==
  (/\ AdaINCalled /\ Spatial > 1
   /\ \/ inp.s.shape[2] # args.style_dim
      \/ Channels # args.num_features) => ~Ok(out)

(* C7 amended: forward fails whenever s's last dimension differs from
   style_dim; a channel count different from num_features fails only when
   neither of the two is 1, otherwise gamma/beta broadcast against x and a
   (batch, max(channels, num_features), H, W) result is returned.  (A
   runtime that verifies the spatial size rejects a single spatial
   element.) *)
C7_MismatchFailsUnlessBroadcast ==
  AdaINCalled =>
    /\ (inp.s.shape[2] # args.style_dim => ~Ok(out))
    /\ ~Ok(out) <=>
         \/ inp.s.shape[2] # args.style_dim
         \/ ~Compatible(Channels, args.num_features)
         \/ (inp.strict /\ Spatial = 1)
    /\ Ok(out) =>
         out.shape = <<Batch, Max(Channels, args.num_features),
                       inp.x.shape[3], inp.x.shape[4]>>

C7_Witness ==
  /\ AdaINCalled
  /\ inp.s.shape = <<Batch, args.style_dim>>
  /\ args.num_features = 1 /\ Channels = 3
  /\ out = Tensor(<<Batch, 3, inp.x.shape[3], inp.x.shape[4]>>)

(* ------------------------------- C8 ----------------------------------- *)
PyramidBuilt == net \in {"Discriminator", "StyleEncoder"} /\ pc = "built"
ProbeImage == Tensor(<<1, 3, args.img_size, args.img_size>>)

(* the feature map after the stem and the downsampling ResBlocks *)
PyramidMap == Sequential(SubSeq(blocks, 1, 1 + num_blocks), TRUE, ProbeImage)

(* the flattened output of the whole layer stack *)
Flattened == View(Sequential(blocks, TRUE, ProbeImage))

TailWidth == IF net = "Discriminator" THEN args.num_domains ELSE dim_out

(* C8 as stated: for every img_size the module can be built with, the
   downsampling ResBlocks leave a 4x4 map, the 4x4 convolution collapses it
   to 1x1 and the flattened output has one column per output channel
   (num_domains logits in Discriminator). *)
C8_PyramidLeaves4x4 ==
  PyramidBuilt =>
    /\ PyramidMap.shape = <<1, dim_out, 4, 4>>
    /\ Flattened.shape = <<1, TailWidth>>

(* C8 amended: the downsampling ResBlocks leave an m x m map with
   m = floor(img_size / 2^n) in 4..7, n = int(log2(img_size)) - 2, and the
   flattened output has (m-3)^2 columns per output channel; m = 4 and one
   column per channel exactly when img_size < 5 * 2^n, in particular for
   every power of two >= 8. *)
C8_PyramidLeavesMxM ==
  PyramidBuilt =>
    LET n == IntLog2(args.img_size) - 2
        m == Halved(args.img_size, n)
    IN /\ m \in 4..7
       /\ PyramidMap.shape = <<1, dim_out, m, m>>
       /\ Flattened.shape = <<1, TailWidth * (m - 3) * (m - 3)>>
       /\ (m = 4 <=> args.img_size < 5 * 2 ^ n)
       /\ (args.img_size = 2 ^ IntLog2(args.img_size) => m = 4)

C8_Witness ==
  /\ PyramidBuilt /\ net = "Discriminator"
  /\ args.img_size = 256 /\ args.num_domains = 2 /\ args.max_conv_dim = 512
  /\ num_blocks = 6
  /\ PyramidMap.shape = <<1, 512, 4, 4>>
  /\ Flattened.shape = <<1, 2>>

(* ------------------------------- C9 ----------------------------------- *)
ResBlockCalled ==
  /\ net = "ResBlock" /\ Finished
  /\ Channels = args.dim_in

AdaResBlockCalled ==
  /\ net = "AdaResBlock" /\ Finished
  /\ Channels = args.dim_in
  /\ inp.s.shape = <<Batch, args.style_dim>>

H == inp.x.shape[3]
W == inp.x.shape[4]

ResBlockShape ==
  IF args.downsample THEN <<Batch, args.dim_out, H \div 2, W \div 2>>
  ELSE <<Batch, args.dim_out, H, W>>

AdaResBlockShape ==
  IF args.upsample THEN <<Batch, args.dim_out, 2 * H, 2 * W>>
  ELSE <<Batch, args.dim_out, H, W>>

ProjectionIffWidthsDiffer ==
  /\ self.shortcut <=> args.dim_in # args.dim_out
  /\ Len(self.conv_1x1) = (IF args.dim_in # args.dim_out THEN 1 ELSE 0)

(* C9 as stated: for every input (batch, dim_in, H, W) the residual and the
   shortcut path return tensors of one shape and forward returns
   (batch, dim_out, H, W), floor-halved with downsample, doubled with
   upsample; the 1x1 projection is there exactly when dim_in # dim_out
   (taken on a runtime that normalises a single spatial element). *)
C9_PathsAgreeOnEveryInput ==
  /\ (ResBlockCalled /\ ~inp.strict) =>
       /\ Ok(out) /\ out.shape = ResBlockShape
       /\ ResBlock_residual(self, inp.strict, inp.x) = ResBlock_shortcut(self, inp.x)
       /\ ProjectionIffWidthsDiffer
  /\ (AdaResBlockCalled /\ ~inp.strict) =>
       /\ Ok(out) /\ out.shape = AdaResBlockShape
       /\ AdaResBlock_residual(self, inp.strict, inp.x, inp.s) = AdaResBlock_shortcut(self, inp.x)
       /\ ProjectionIffWidthsDiffer

(* a feature map of a single element reaches an instance norm *)
ResBlockNormsOneElement ==
  /\ args.normalize
  /\ \/ H * W = 1
     \/ args.downsample /\ (H \div 2) * (W \div 2) = 1

(* C9 amended: the same, for every input on which forward returns; forward
   fails instead of returning when a downsampling ResBlock gets H = 1 or
   W = 1 (the pooled map would be empty) and, on a runtime that verifies
   the spatial size, when an instance norm gets a single spatial element. *)
C9_PathsAgreeWhenReturned ==
  /\ ResBlockCalled =>
       /\ ~Ok(out) <=>
            \/ args.downsample /\ (H = 1 \/ W = 1)
            \/ inp.strict /\ ResBlockNormsOneElement
       /\ Ok(out) =>
            /\ out.shape = ResBlockShape
            /\ ResBlock_residual(self, inp.strict, inp.x) = ResBlock_shortcut(self, inp.x)
       /\ ProjectionIffWidthsDiffer
  /\ AdaResBlockCalled =>
       /\ ~Ok(out) <=> (inp.strict /\ H * W = 1)
       /\ Ok(out) =>
            /\ out.shape = AdaResBlockShape
            /\ AdaResBlock_residual(self, inp.strict, inp.x, inp.s) = AdaResBlock_shortcut(self, inp.x)
       /\ ProjectionIffWidthsDiffer

C9_Witness ==
  /\ ResBlockCalled
  /\ args.downsample /\ args.dim_in # args.dim_out
  /\ H = 3 /\ W = 2
  /\ out = Tensor(<<Batch, args.dim_out, 1, 1>>)
  /\ Len(self.conv_1x1) = 1

(* ------------------------------- C10 ---------------------------------- *)
Constructed == pc \in {"built", "done", "failed"}

(* C10: a constructor completes only when its downsampling loop ran at
   least once: Generator iff int(log2(img_size)) - 4 >= 1 (img_size >= 32),
   Discriminator and StyleEncoder iff int(log2(img_size)) - 2 >= 1
   (img_size >= 8); otherwise it aborts on the unassigned dim_out and no
   network of only the bottleneck blocks, or only the stem and tail, is
   built. *)
C10_BuiltIffLoopRan ==
  /\ (net = "Generator" /\ Constructed) =>
       /\ Built <=> args.img_size >= 32
       /\ Built <=> IntLog2(args.img_size) - 4 >= 1
       /\ Built => Len(encoder) >= 3 /\ Len(decoder) >= 3 /\ dim_out # UNBOUND
       /\ ~Built => /\ out.err = "NameError" /\ dim_out = UNBOUND
                    /\ encoder = <<>> /\ decoder = <<>>
  /\ (net \in {"Discriminator", "StyleEncoder"} /\ Constructed) =>
       /\ Built <=> args.img_size >= 8
       /\ Built <=> IntLog2(args.img_size) - 2 >= 1
       /\ Built => /\ \E i \in 1..Len(blocks) : blocks[i].kind = "ResBlock"
                   /\ dim_out # UNBOUND
       /\ ~Built => /\ out.err = "NameError" /\ dim_out = UNBOUND
                    /\ Len(blocks) = 1

C10_Witness ==
  /\ net = "Generator" /\ pc = "failed"
  /\ args.img_size = 31
  /\ num_blocks = 0
  /\ out.err = "NameError"

====
